---- MODULE Spec2Model ----
(***************************************************************************)
(* Model of src/src/app/backend/replicasetlist.go: the replica set list    *)
(* of the dashboard backend.  GetReplicaSetList fetches three collections  *)
(* from the cluster API and getReplicaSetList joins them in memory.        *)
(*                                                                         *)
(* Go values are represented as follows.                                   *)
(*   map[string]string  [isNil, kv]: kv is a function on the present keys. *)
(*   a slice built with var/append/make  [isNil, elems].                   *)
(*   a slice that is only ranged over (Items, Ingress)  a sequence.        *)
(*   range over a map  a sequence `iter` of all keys gives the order in    *)
(*                     which the runtime happens to visit them.            *)
(***************************************************************************)
EXTENDS Integers, Sequences, FiniteSets, TLC

VARIABLES pc, calls, replicaSets, services, pods, retList, retErr,
          selIn, labelsIn, iterIn, matchDone, matchOut

vars == <<pc, calls, replicaSets, services, pods, retList, retErr,
          selIn, labelsIn, iterIn, matchDone, matchOut>>

joinVars == <<pc, calls, replicaSets, services, pods, retList, retErr>>
matchVars == <<selIn, labelsIn, iterIn, matchDone, matchOut>>

(***************************************************************************)
(* Bounds of the model and the small sets the inputs are drawn from.       *)
(***************************************************************************)
MaxRS == 2
MaxServices == 2
MaxIngress == 2
MaxPods == 2
MaxJoinServices == 1
MaxJoinPods == 1
MaxListed == 2

Keys == {"app", "tier"}
Values == {"x", "y"}
Namespaces == {"ns", "other"}
Errors == {"connection refused", "forbidden"}

PodRunning == "Running"
PodPending == "Pending"
PodFailed == "Failed"
Phases == {PodRunning, PodPending, PodFailed, "Succeeded", "Unknown"}

(***************************************************************************)
(* Go maps and slices.                                                     *)
(***************************************************************************)
NilMap == [isNil |-> TRUE, kv |-> <<>>]
MapOf(f) == [isNil |-> FALSE, kv |-> f]
MapLen(m) == Cardinality(DOMAIN m.kv)
HasKey(m, k) == k \in DOMAIN m.kv

NilSlice == [isNil |-> TRUE, elems |-> <<>>]
MakeSlice == [isNil |-> FALSE, elems |-> <<>>]
GoAppend(s, x) == [isNil |-> FALSE, elems |-> Append(s.elems, x)]

\* Every map over Keys and Values, the nil map included.
AllMaps == {NilMap} \cup
           UNION {{MapOf(f) : f \in [D -> Values]} : D \in SUBSET Keys}

\* Every order in which a range over a map may visit the keys.
IterOrders == {s \in [1..Cardinality(Keys) -> Keys] :
                 \A i, j \in DOMAIN s : i # j => s[i] # s[j]}

Perms(n) == {p \in [1..n -> 1..n] : \A i, j \in 1..n : i # j => p[i] # p[j]}
Permute(s, p) == [i \in 1..Len(s) |-> s[p[i]]]

(***************************************************************************)
(* isLabelSelectorMatching                                                 *)
(***************************************************************************)
RECURSIVE rangeLabelSelector(_, _, _)
rangeLabelSelector(order, labelSelector, testedObjectLabels) ==
  IF order = <<>> THEN TRUE
  ELSE LET label == Head(order)
           value == labelSelector.kv[label]
       IN IF ~HasKey(testedObjectLabels, label)
             \/ testedObjectLabels.kv[label] # value
          THEN FALSE
          ELSE rangeLabelSelector(Tail(order), labelSelector, testedObjectLabels)

\* Mutant: the value comparison is dropped, only the key is looked up.
isLabelSelectorMatchingKeyOnly(iter, labelSelector, testedObjectLabels) ==
  /\ MapLen(labelSelector) # 0
  /\ \A k \in DOMAIN labelSelector.kv : HasKey(testedObjectLabels, k)

\* Mutant: the empty-selector guard is dropped.
isLabelSelectorMatchingNoGuard(iter, labelSelector, testedObjectLabels) ==
  rangeLabelSelector(SelectSeq(iter, LAMBDA k : HasKey(labelSelector, k)),
                     labelSelector, testedObjectLabels)

isLabelSelectorMatching(iter, labelSelector, testedObjectLabels) ==
  IF MapLen(labelSelector) = 0 THEN FALSE
  ELSE rangeLabelSelector(SelectSeq(iter, LAMBDA k : HasKey(labelSelector, k)),
                          labelSelector, testedObjectLabels)

(***************************************************************************)
(* The selector matcher on its own: inputs drawn in MatchInit.             *)
(***************************************************************************)
MatchInit ==
  /\ selIn \in AllMaps
  /\ labelsIn \in AllMaps
  /\ iterIn \in IterOrders
  /\ matchDone = FALSE
  /\ matchOut = FALSE
  /\ pc = "idle" /\ calls = <<>> /\ replicaSets = <<>> /\ services = <<>>
  /\ pods = <<>> /\ retList = [isNil |-> TRUE] /\ retErr = "nil"

CallMatch ==
  /\ ~matchDone
  /\ matchDone' = TRUE
  /\ matchOut' = isLabelSelectorMatching(iterIn, selIn, labelsIn)
  /\ UNCHANGED <<selIn, labelsIn, iterIn>>
  /\ UNCHANGED joinVars

MatchNext == CallMatch
SpecMatch == MatchInit /\ [][MatchNext]_vars

\* C1: isLabelSelectorMatching(S, L) is true iff S is non-empty and every
\* (key, value) pair of S is in L with the same value; an empty or nil S
\* matches nothing; keys of L that are not keys of S never change the result
\* (nor does the order in which the map is ranged over).
C1_MatchIffNonEmptySubset ==
  matchDone =>
    /\ matchOut <=> /\ DOMAIN selIn.kv # {}
                    /\ \A k \in DOMAIN selIn.kv :
                         /\ k \in DOMAIN labelsIn.kv
                         /\ labelsIn.kv[k] = selIn.kv[k]
    /\ DOMAIN selIn.kv = {} => ~matchOut
    /\ \A L2 \in AllMaps :
         (\A k \in DOMAIN selIn.kv :
            (k \in DOMAIN L2.kv <=> k \in DOMAIN labelsIn.kv)
            /\ (k \in DOMAIN L2.kv => L2.kv[k] = labelsIn.kv[k]))
         => \A it \in IterOrders :
              isLabelSelectorMatching(it, selIn, L2) = matchOut

C1_Witness ==
  /\ matchDone /\ matchOut
  /\ DOMAIN selIn.kv # DOMAIN labelsIn.kv

(***************************************************************************)
(* API objects.  The fields the code reads; an object's identity (name,    *)
(* ports, images, replica counts) is given by its position in the listing. *)
(***************************************************************************)
DescriptionAnnotationKey == "description"

ReplicationController(i, ns, sel) ==
  [Name |-> <<"rs", i>>, Namespace |-> ns,
   Labels |-> MapOf([k \in {"app"} |-> "x"]),
   Annotations |-> IF i % 2 = 1
                   THEN MapOf([k \in {DescriptionAnnotationKey} |-> "about"])
                   ELSE NilMap,
   CreationTimestamp |-> 100 + i,
   SpecReplicas |-> i, StatusReplicas |-> i - 1,
   Selector |-> sel,
   Containers |-> [j \in 1..(i - 1) |-> [Image |-> <<"image", j>>]]]

Service(i, ns, sel, n) ==
  [Name |-> <<"svc", i>>, Namespace |-> ns, Selector |-> sel,
   Ports |-> [j \in 1..i |-> 79 + j],
   Ingress |-> [k \in 1..n |-> <<"ip", i, k>>]]

Pod(i, ns, labels, phase) ==
  [Name |-> <<"pod", i>>, Namespace |-> ns, Labels |-> labels, Phase |-> phase]

(***************************************************************************)
(* getInternalEndpoint, getExternalEndpoint: defined outside this file.    *)
(***************************************************************************)
getInternalEndpoint(serviceName, namespace, ports) ==
  [name |-> serviceName, namespace |-> namespace, ports |-> ports]

getExternalEndpoint(externalIP, ports) ==
  [address |-> externalIP, ports |-> ports]

(***************************************************************************)
(* getMatchingServices                                                     *)
(***************************************************************************)
RECURSIVE rangeServices(_, _, _, _, _)
rangeServices(iter, svcs, i, replicaSet, matchingServices) ==
  IF i > Len(svcs) THEN matchingServices
  ELSE LET service == svcs[i] IN
       rangeServices(iter, svcs, i + 1, replicaSet,
         IF /\ service.Namespace = replicaSet.Namespace
            /\ isLabelSelectorMatching(iter, service.Selector, replicaSet.Selector)
         THEN GoAppend(matchingServices, service)
         ELSE matchingServices)

\* Mutant: the result starts as an allocated empty slice (make) instead of
\* the zero value.
getMatchingServicesMake(iter, svcs, replicaSet) ==
  rangeServices(iter, svcs, 1, replicaSet, MakeSlice)

\* Mutant: a matching service is put in front of the ones found so far.
RECURSIVE rangeServicesPrepend(_, _, _, _, _)
rangeServicesPrepend(iter, svcs, i, replicaSet, matchingServices) ==
  IF i > Len(svcs) THEN matchingServices
  ELSE LET service == svcs[i] IN
       rangeServicesPrepend(iter, svcs, i + 1, replicaSet,
         IF /\ service.Namespace = replicaSet.Namespace
            /\ isLabelSelectorMatching(iter, service.Selector, replicaSet.Selector)
         THEN [isNil |-> FALSE, elems |-> <<service>> \o matchingServices.elems]
         ELSE matchingServices)

getMatchingServicesPrepend(iter, svcs, replicaSet) ==
  rangeServicesPrepend(iter, svcs, 1, replicaSet, NilSlice)

\* Mutant: the two selectors are passed to the matcher the other way round.
RECURSIVE rangeServicesSwapped(_, _, _, _, _)
rangeServicesSwapped(iter, svcs, i, replicaSet, matchingServices) ==
  IF i > Len(svcs) THEN matchingServices
  ELSE LET service == svcs[i] IN
       rangeServicesSwapped(iter, svcs, i + 1, replicaSet,
         IF /\ service.Namespace = replicaSet.Namespace
            /\ isLabelSelectorMatching(iter, replicaSet.Selector, service.Selector)
         THEN GoAppend(matchingServices, service)
         ELSE matchingServices)

getMatchingServicesSwapped(iter, svcs, replicaSet) ==
  rangeServicesSwapped(iter, svcs, 1, replicaSet, NilSlice)

getMatchingServices(iter, svcs, replicaSet) ==
  rangeServices(iter, svcs, 1, replicaSet, NilSlice)

(***************************************************************************)
(* getReplicaSetPodInfo                                                    *)
(***************************************************************************)
RECURSIVE rangePods(_, _, _, _, _)
rangePods(iter, replicaSet, ps, i, result) ==
  IF i > Len(ps) THEN result
  ELSE LET pod == ps[i] IN
       rangePods(iter, replicaSet, ps, i + 1,
         IF /\ pod.Namespace = replicaSet.Namespace
            /\ isLabelSelectorMatching(iter, replicaSet.Selector, pod.Labels)
         THEN CASE pod.Phase = PodRunning ->
                     [result EXCEPT !.Running = @ + 1]
                [] pod.Phase = PodPending ->
                     [result EXCEPT !.Waiting = @ + 1]
                [] pod.Phase = PodFailed ->
                     [result EXCEPT !.Failed = @ + 1]
                [] OTHER -> result
         ELSE result)

PodInfoOf(replicaSet) ==
  [Curret |-> replicaSet.StatusReplicas,
   Desired |-> replicaSet.SpecReplicas,
   Running |-> 0, Waiting |-> 0, Failed |-> 0]

\* Mutant: the namespace of the pod is not compared.
RECURSIVE rangePodsAnyNamespace(_, _, _, _, _)
rangePodsAnyNamespace(iter, replicaSet, ps, i, result) ==
  IF i > Len(ps) THEN result
  ELSE LET pod == ps[i] IN
       rangePodsAnyNamespace(iter, replicaSet, ps, i + 1,
         IF isLabelSelectorMatching(iter, replicaSet.Selector, pod.Labels)
         THEN CASE pod.Phase = PodRunning ->
                     [result EXCEPT !.Running = @ + 1]
                [] pod.Phase = PodPending ->
                     [result EXCEPT !.Waiting = @ + 1]
                [] pod.Phase = PodFailed ->
                     [result EXCEPT !.Failed = @ + 1]
                [] OTHER -> result
         ELSE result)

getReplicaSetPodInfoAnyNamespace(iter, replicaSet, ps) ==
  rangePodsAnyNamespace(iter, replicaSet, ps, 1, PodInfoOf(replicaSet))

\* Mutant: the switch has a default case that counts the pod as failed.
RECURSIVE rangePodsDefaultFailed(_, _, _, _, _)
rangePodsDefaultFailed(iter, replicaSet, ps, i, result) ==
  IF i > Len(ps) THEN result
  ELSE LET pod == ps[i] IN
       rangePodsDefaultFailed(iter, replicaSet, ps, i + 1,
         IF /\ pod.Namespace = replicaSet.Namespace
            /\ isLabelSelectorMatching(iter, replicaSet.Selector, pod.Labels)
         THEN CASE pod.Phase = PodRunning ->
                     [result EXCEPT !.Running = @ + 1]
                [] pod.Phase = PodPending ->
                     [result EXCEPT !.Waiting = @ + 1]
                [] OTHER ->
                     [result EXCEPT !.Failed = @ + 1]
         ELSE result)

getReplicaSetPodInfoDefaultFailed(iter, replicaSet, ps) ==
  rangePodsDefaultFailed(iter, replicaSet, ps, 1, PodInfoOf(replicaSet))

\* Mutant: the scan stops at the first pod that does not match.
RECURSIVE rangePodsBreak(_, _, _, _, _)
rangePodsBreak(iter, replicaSet, ps, i, result) ==
  IF i > Len(ps) THEN result
  ELSE LET pod == ps[i] IN
       IF /\ pod.Namespace = replicaSet.Namespace
          /\ isLabelSelectorMatching(iter, replicaSet.Selector, pod.Labels)
       THEN rangePodsBreak(iter, replicaSet, ps, i + 1,
              CASE pod.Phase = PodRunning ->
                     [result EXCEPT !.Running = @ + 1]
                [] pod.Phase = PodPending ->
                     [result EXCEPT !.Waiting = @ + 1]
                [] pod.Phase = PodFailed ->
                     [result EXCEPT !.Failed = @ + 1]
                [] OTHER -> result)
       ELSE result

getReplicaSetPodInfoBreak(iter, replicaSet, ps) ==
  rangePodsBreak(iter, replicaSet, ps, 1, PodInfoOf(replicaSet))

getReplicaSetPodInfo(iter, replicaSet, ps) ==
  rangePods(iter, replicaSet, ps, 1, PodInfoOf(replicaSet))

(***************************************************************************)
(* getReplicaSetList                                                       *)
(***************************************************************************)
RECURSIVE rangeContainers(_, _, _)
rangeContainers(containers, i, containerImages) ==
  IF i > Len(containers) THEN containerImages
  ELSE rangeContainers(containers, i + 1,
                       GoAppend(containerImages, containers[i].Image))

RECURSIVE rangeIngress(_, _, _, _)
rangeIngress(service, k, externalEndpoints, dummy) ==
  IF k > Len(service.Ingress) THEN externalEndpoints
  ELSE rangeIngress(service, k + 1,
         GoAppend(externalEndpoints,
                  getExternalEndpoint(service.Ingress[k], service.Ports)),
         dummy)

\* The loop over matchingServices; eps = [internal, external].
RECURSIVE rangeMatching(_, _, _)
rangeMatching(matching, i, eps) ==
  IF i > Len(matching) THEN eps
  ELSE LET service == matching[i] IN
       rangeMatching(matching, i + 1,
         [internal |-> GoAppend(eps.internal,
                         getInternalEndpoint(service.Name, service.Namespace,
                                             service.Ports)),
          external |-> rangeIngress(service, 1, eps.external, 0)])

ReplicaSetOf(iter, replicaSet, svcs, ps) ==
  LET containerImages == rangeContainers(replicaSet.Containers, 1, NilSlice)
      matchingServices == getMatchingServices(iter, svcs, replicaSet)
      eps == rangeMatching(matchingServices.elems, 1,
                           [internal |-> NilSlice, external |-> NilSlice])
      podInfo == getReplicaSetPodInfo(iter, replicaSet, ps)
  IN [Name |-> replicaSet.Name,
      Namespace |-> replicaSet.Namespace,
      Description |-> IF HasKey(replicaSet.Annotations, DescriptionAnnotationKey)
                      THEN replicaSet.Annotations.kv[DescriptionAnnotationKey]
                      ELSE "",
      Labels |-> replicaSet.Labels,
      Pods |-> podInfo,
      ContainerImages |-> containerImages,
      CreationTime |-> replicaSet.CreationTimestamp,
      InternalEndpoints |-> eps.internal,
      ExternalEndpoints |-> eps.external]

RECURSIVE rangeReplicaSets(_, _, _, _, _, _)
rangeReplicaSets(iter, rss, svcs, ps, i, list) ==
  IF i > Len(rss) THEN list
  ELSE rangeReplicaSets(iter, rss, svcs, ps, i + 1,
                        GoAppend(list, ReplicaSetOf(iter, rss[i], svcs, ps)))

\* Mutant: the list starts as the zero value (var) instead of make(.., 0).
getReplicaSetListVar(iter, rss, svcs, ps) ==
  [isNil |-> FALSE,
   ReplicaSets |-> rangeReplicaSets(iter, rss, svcs, ps, 1, NilSlice)]

getReplicaSetList(iter, rss, svcs, ps) ==
  [isNil |-> FALSE,
   ReplicaSets |-> rangeReplicaSets(iter, rss, svcs, ps, 1, MakeSlice)]

NilList == [isNil |-> TRUE, ReplicaSets |-> NilSlice]

(***************************************************************************)
(* GetReplicaSetList: one step per call to the cluster API.  A fetch       *)
(* either yields the items of the collection or fails with an error; the   *)
(* step runs the code up to the next fetch or to the return.  replicaSets,  *)
(* services and pods are the locals of the call: a return with an error    *)
(* drops them with the frame, a return with a list leaves in them the      *)
(* listings the list was built from.                                       *)
(***************************************************************************)
\* One entry of the log of the calls made to the cluster API, with the error
\* the call returned ("nil": none).
Call(api, err) == [api |-> api, err |-> err]

Init ==
  /\ pc = "ReplicationControllers"
  /\ calls = <<>>
  /\ replicaSets = <<>> /\ services = <<>> /\ pods = <<>>
  /\ retList = NilList /\ retErr = "nil"
  /\ selIn = NilMap /\ labelsIn = NilMap /\ iterIn = <<>>
  /\ matchDone = FALSE /\ matchOut = FALSE

ListReplicationControllers(lists) ==
  /\ pc = "ReplicationControllers"
  /\ \/ \E items \in lists :
          /\ calls' = Append(calls, Call("ReplicationControllers", "nil"))
          /\ replicaSets' = items
          /\ pc' = "Services"
          /\ UNCHANGED <<retList, retErr>>
     \/ \E err \in Errors :
          /\ calls' = Append(calls, Call("ReplicationControllers", err))
          /\ retList' = NilList /\ retErr' = err
          /\ pc' = "returned"
          /\ UNCHANGED replicaSets
  /\ UNCHANGED <<services, pods>>
  /\ UNCHANGED matchVars

\* Mutant: a failed fetch of the services is taken for an empty listing.
ListServicesSwallow(lists) ==
  /\ pc = "Services"
  /\ \/ \E items \in lists :
          /\ calls' = Append(calls, Call("Services", "nil"))
          /\ services' = items
     \/ \E err \in Errors :
          /\ calls' = Append(calls, Call("Services", err))
          /\ services' = <<>>
  /\ pc' = "Pods"
  /\ UNCHANGED <<replicaSets, pods, retList, retErr>>
  /\ UNCHANGED matchVars

ListServices(lists) ==
  /\ pc = "Services"
  /\ \/ \E items \in lists :
          /\ calls' = Append(calls, Call("Services", "nil"))
          /\ services' = items
          /\ pc' = "Pods"
          /\ UNCHANGED <<replicaSets, retList, retErr>>
     \/ \E err \in Errors :
          /\ calls' = Append(calls, Call("Services", err))
          /\ retList' = NilList /\ retErr' = err
          /\ pc' = "returned"
          /\ replicaSets' = <<>>
          /\ UNCHANGED services
  /\ UNCHANGED pods
  /\ UNCHANGED matchVars

ListPods(lists) ==
  /\ pc = "Pods"
  /\ \/ \E items \in lists, iter \in IterOrders :
          /\ calls' = Append(calls, Call("Pods", "nil"))
          /\ pods' = items
          /\ retList' = getReplicaSetList(iter, replicaSets, services, items)
          /\ retErr' = "nil"
          /\ pc' = "returned"
          /\ UNCHANGED <<replicaSets, services>>
     \/ \E err \in Errors :
          /\ calls' = Append(calls, Call("Pods", err))
          /\ retList' = NilList /\ retErr' = err
          /\ pc' = "returned"
          /\ replicaSets' = <<>> /\ services' = <<>>
          /\ UNCHANGED pods
  /\ UNCHANGED matchVars

(***************************************************************************)
(* The listings the cluster API may return.                                *)
(***************************************************************************)
EmptyMap == MapOf(<<>>)
AppX == MapOf([k \in {"app"} |-> "x"])
AppY == MapOf([k \in {"app"} |-> "y"])
AppXTierY == MapOf([k \in Keys |-> IF k = "app" THEN "x" ELSE "y"])

RSLists(n, U) ==
  UNION {{[i \in 1..k |-> ReplicationController(i, f[i][1], f[i][2])] :
            f \in [1..k -> U]} : k \in 0..n}

ServiceLists(n, U) ==
  UNION {{[i \in 1..k |-> Service(i, f[i][1], f[i][2], f[i][3])] :
            f \in [1..k -> U]} : k \in 0..n}

PodLists(n, U) ==
  UNION {{[i \in 1..k |-> Pod(i, f[i][1], f[i][2], f[i][3])] :
            f \in [1..k -> U]} : k \in 0..n}

\* A single replica set (the namespaces are interchangeable: the code only
\* compares them).
OneReplicaSet ==
  RSLists(1, {"ns"} \X {NilMap, EmptyMap, AppX, AppY, AppXTierY}) \ {<<>>}

\* Pod counting: one replica set, no services, up to MaxPods pods.
PodsNext ==
  \/ ListReplicationControllers(OneReplicaSet)
  \/ ListServices({<<>>})
  \/ ListPods(PodLists(MaxPods,
                       Namespaces \X {AppX, AppY, AppXTierY} \X Phases))
SpecPods == Init /\ [][PodsNext]_vars

\* Service matching: one replica set, up to MaxServices services with up to
\* MaxIngress load-balancer addresses each, no pods.
ServicesNext ==
  \/ ListReplicationControllers(OneReplicaSet)
  \/ ListServices(ServiceLists(MaxServices,
                    Namespaces \X {EmptyMap, AppX, AppXTierY} \X (0..MaxIngress)))
  \/ ListPods({<<>>})
SpecServices == Init /\ [][ServicesNext]_vars

\* The whole join: up to MaxRS replica sets, MaxJoinServices services and
\* MaxJoinPods pods.
Next ==
  \/ ListReplicationControllers(
       RSLists(MaxRS, ({"ns"} \X {NilMap, EmptyMap, AppX, AppXTierY})
                      \cup {<<"other", AppX>>}))
  \/ ListServices(
       ServiceLists(MaxJoinServices,
                    Namespaces \X {EmptyMap, AppX, AppXTierY} \X {1}))
  \/ ListPods(
       PodLists(MaxJoinPods, Namespaces \X {AppX, AppXTierY} \X {PodRunning}))
Spec == Init /\ [][Next]_vars

\* Reordered listings: up to MaxListed objects of each kind.
PermNext ==
  \/ ListReplicationControllers(
       RSLists(MaxListed, {"ns"} \X {AppX, AppXTierY}))
  \/ ListServices(
       ServiceLists(MaxListed, {<<"ns", AppX, 1>>, <<"ns", AppXTierY, 0>>,
                                <<"other", AppX, 1>>}))
  \/ ListPods(
       PodLists(MaxListed, {<<"ns", AppX, PodRunning>>,
                            <<"ns", AppXTierY, PodPending>>,
                            <<"other", AppXTierY, PodFailed>>}))
SpecPerm == Init /\ [][PermNext]_vars

(***************************************************************************)
(* What the properties are stated with.                                    *)
(***************************************************************************)
Returned == pc = "returned" /\ retErr = "nil"
Records == retList.ReplicaSets.elems
Range(s) == {s[i] : i \in 1..Len(s)}
Count(s, x) == Cardinality({i \in 1..Len(s) : s[i] = x})
SameBag(s, u) ==
  /\ Len(s) = Len(u)
  /\ \A x \in Range(s) \cup Range(u) : Count(s, x) = Count(u, x)
RemoveAt(s, i) == [j \in 1..(Len(s) - 1) |-> IF j < i THEN s[j] ELSE s[j + 1]]

\* sel is non-empty and each of its pairs is in labels.
Satisfies(sel, labels) ==
  /\ DOMAIN sel.kv # {}
  /\ \A k \in DOMAIN sel.kv : k \in DOMAIN labels.kv /\ labels.kv[k] = sel.kv[k]

\* Service S targets replica set R; pod P belongs to replica set R.
Targets(S, R) ==
  S.Namespace = R.Namespace /\ Satisfies(S.Selector, R.Selector)
BelongsTo(P, R) ==
  P.Namespace = R.Namespace /\ Satisfies(R.Selector, P.Labels)

\* C2: a service in another namespace than replica set R adds no internal or
\* external endpoint to R's record and a pod in another namespace adds to
\* none of R's counters, whatever their selector or labels are.
C2_NamespaceIsolation ==
  Returned =>
    \A i \in 1..Len(replicaSets) :
      LET R == replicaSets[i]
          rec == Records[i]
          ownServices == SelectSeq(services, LAMBDA S : S.Namespace = R.Namespace)
          ownPods == SelectSeq(pods, LAMBDA P : P.Namespace = R.Namespace)
      IN /\ Len(rec.InternalEndpoints.elems) <= Len(ownServices)
         /\ (ownServices = <<>> => rec.ExternalEndpoints.elems = <<>>)
         /\ rec.Pods.Running + rec.Pods.Waiting + rec.Pods.Failed
              <= Len(ownPods)
         /\ \A it \in IterOrders :
              /\ rec.Pods = getReplicaSetPodInfo(it, R, ownPods)
              /\ rec = ReplicaSetOf(it, R, ownServices, ownPods)

C2_Witness ==
  /\ Returned
  /\ \E i \in 1..Len(replicaSets), j \in 1..Len(services), k \in 1..Len(pods) :
       /\ services[j].Namespace # replicaSets[i].Namespace
       /\ services[j].Selector = replicaSets[i].Selector
       /\ pods[k].Namespace # replicaSets[i].Namespace
       /\ pods[k].Labels = replicaSets[i].Selector
       /\ Satisfies(replicaSets[i].Selector, pods[k].Labels)
       /\ Records[i].InternalEndpoints.elems = <<>>
       /\ Records[i].ExternalEndpoints.elems = <<>>
       /\ Records[i].Pods.Running = 0

\* C3: running, waiting and failed are the numbers of pods of the replica
\* set (same namespace, selector satisfied) in phase Running, Pending and
\* Failed; a pod of the replica set in another phase adds to none of them, so
\* their sum is at most the number of pods of the replica set.
C3_PodCounts ==
  Returned =>
    \A i \in 1..Len(replicaSets) :
      LET R == replicaSets[i]
          info == Records[i].Pods
          mine == {k \in 1..Len(pods) : BelongsTo(pods[k], R)}
          InPhase(ph) == Cardinality({k \in mine : pods[k].Phase = ph})
      IN /\ info.Running = InPhase(PodRunning)
         /\ info.Waiting = InPhase(PodPending)
         /\ info.Failed = InPhase(PodFailed)
         /\ info.Running + info.Waiting + info.Failed
              = Cardinality(mine)
                - Cardinality({k \in mine :
                     pods[k].Phase \notin {PodRunning, PodPending, PodFailed}})
         /\ info.Running + info.Waiting + info.Failed <= Cardinality(mine)

C3_Witness ==
  /\ Returned
  /\ Len(replicaSets) = 1 /\ Len(pods) = 2
  /\ BelongsTo(pods[1], replicaSets[1]) /\ pods[1].Phase = "Unknown"
  /\ BelongsTo(pods[2], replicaSets[1]) /\ pods[2].Phase = PodRunning
  /\ Records[1].Pods.Running = 1
  /\ Records[1].Pods.Waiting = 0 /\ Records[1].Pods.Failed = 0

\* C4: the internal endpoints of a record are one per service that targets
\* the replica set, with the service's name, namespace and ports, in the order
\* of the service listing; the external endpoints are one per load-balancer
\* address of each such service, with the service's ports, in listing order
\* and then address order.
RECURSIVE ExpectedInternal(_, _)
ExpectedInternal(R, svcs) ==
  IF svcs = <<>> THEN <<>>
  ELSE LET S == Head(svcs) IN
       (IF Targets(S, R)
        THEN <<[name |-> S.Name, namespace |-> S.Namespace, ports |-> S.Ports]>>
        ELSE <<>>) \o ExpectedInternal(R, Tail(svcs))

RECURSIVE ExpectedExternal(_, _)
ExpectedExternal(R, svcs) ==
  IF svcs = <<>> THEN <<>>
  ELSE LET S == Head(svcs) IN
       (IF Targets(S, R)
        THEN [k \in 1..Len(S.Ingress) |->
                [address |-> S.Ingress[k], ports |-> S.Ports]]
        ELSE <<>>) \o ExpectedExternal(R, Tail(svcs))

RECURSIVE IngressTotal(_, _)
IngressTotal(R, svcs) ==
  IF svcs = <<>> THEN 0
  ELSE (IF Targets(Head(svcs), R) THEN Len(Head(svcs).Ingress) ELSE 0)
       + IngressTotal(R, Tail(svcs))

C4_Endpoints ==
  Returned =>
    \A i \in 1..Len(replicaSets) :
      LET R == replicaSets[i]
          rec == Records[i]
      IN /\ rec.InternalEndpoints.elems = ExpectedInternal(R, services)
         /\ rec.ExternalEndpoints.elems = ExpectedExternal(R, services)
         /\ Len(rec.InternalEndpoints.elems)
              = Cardinality({j \in 1..Len(services) : Targets(services[j], R)})
         /\ Len(rec.ExternalEndpoints.elems) = IngressTotal(R, services)

C4_Witness ==
  /\ Returned
  /\ Len(replicaSets) = 1 /\ Len(services) = 2
  /\ Targets(services[1], replicaSets[1]) /\ Len(services[1].Ingress) = 0
  /\ Targets(services[2], replicaSets[1]) /\ Len(services[2].Ingress) = 2
  /\ Len(Records[1].InternalEndpoints.elems) = 2
  /\ Len(Records[1].ExternalEndpoints.elems) = 2
  /\ Records[1].ExternalEndpoints.elems[2].address = services[2].Ingress[2]

\* C5: the list returned by the join is never nil and holds one record per
\* replica set of the listing, in listing order, with that replica set's name
\* and namespace, whether or not a service or pod matches; for an empty
\* listing it is a present, empty list and no error.
C5_OneRecordPerReplicaSet ==
  Returned =>
    /\ ~retList.isNil
    /\ ~retList.ReplicaSets.isNil
    /\ Len(Records) = Len(replicaSets)
    /\ \A i \in 1..Len(replicaSets) :
         /\ Records[i].Name = replicaSets[i].Name
         /\ Records[i].Namespace = replicaSets[i].Namespace
    /\ replicaSets = <<>> => Records = <<>>

C5_Witness ==
  /\ Returned
  /\ replicaSets = <<>> /\ services # <<>> /\ pods # <<>>
  /\ ~retList.isNil /\ ~retList.ReplicaSets.isNil /\ Records = <<>>

\* C6: the fetches are issued in the order replica sets, services, pods; a
\* failed fetch ends the call with that error and no list, with no later
\* fetch and no retry; a list is returned only after three successful
\* fetches, and then with no error.
ApiOrder == <<"ReplicationControllers", "Services", "Pods">>

C6_FetchOrderAndErrors ==
  /\ Len(calls) <= Len(ApiOrder)
  /\ \A k \in 1..Len(calls) : calls[k].api = ApiOrder[k]
  /\ \A k \in 1..(Len(calls) - 1) : calls[k].err = "nil"
  /\ pc # "returned" =>
       /\ retList = NilList /\ retErr = "nil"
       /\ \A k \in 1..Len(calls) : calls[k].err = "nil"
       /\ pc = (IF Len(calls) < Len(ApiOrder) THEN ApiOrder[Len(calls) + 1]
                ELSE "returned")
  /\ pc = "returned" =>
       /\ calls # <<>>
       /\ retErr = calls[Len(calls)].err
       /\ retErr # "nil" => retList = NilList
       /\ retErr = "nil" =>
            /\ Len(calls) = Len(ApiOrder)
            /\ ~retList.isNil
            /\ \E it \in IterOrders :
                 retList = getReplicaSetList(it, replicaSets, services, pods)

C6_Witness ==
  /\ pc = "returned"
  /\ Len(calls) = 2
  /\ calls[1] = Call("ReplicationControllers", "nil")
  /\ calls[2] = Call("Services", "forbidden")
  /\ retErr = "forbidden" /\ retList = NilList

\* C7 as stated: when no service targets the replica set, getMatchingServices
\* returns an empty list that is not nil.
C7_EmptyNeverNil ==
  Returned =>
    \A i \in 1..Len(replicaSets), it \in IterOrders :
      (\A j \in 1..Len(services) : ~Targets(services[j], replicaSets[i]))
        => LET m == getMatchingServices(it, services, replicaSets[i])
           IN ~m.isNil /\ m.elems = <<>>

\* C7 amended: the join leaves the listings it was given as they were, and
\* when no service targets the replica set getMatchingServices returns a list
\* of length zero that is the nil slice; it is not nil when a service does.
C7_EmptyIsNilSlice ==
  [][(pc = "Pods" /\ pc' = "returned" /\ retErr' = "nil") =>
       /\ replicaSets' = replicaSets /\ services' = services
       /\ \A i \in 1..Len(replicaSets), it \in IterOrders :
            LET m == getMatchingServices(it, services, replicaSets[i])
                none == \A j \in 1..Len(services) :
                           ~Targets(services[j], replicaSets[i])
            IN /\ none => (m.isNil /\ m.elems = <<>>)
               /\ ~none => (~m.isNil /\ m.elems # <<>>)
               /\ retList'.ReplicaSets.elems[i].InternalEndpoints.isNil = m.isNil]_vars

C7_Witness ==
  /\ Returned
  /\ Len(replicaSets) = 1 /\ Len(services) = 2
  /\ \A j \in 1..Len(services) : ~Targets(services[j], replicaSets[1])
  /\ \A it \in IterOrders :
       getMatchingServices(it, services, replicaSets[1]) = NilSlice

\* C8: with the same listings the join gives the same list whatever the
\* order in which maps are ranged over; reordering the services and the pods
\* leaves every record's counts unchanged and its endpoints the same up to
\* their order; reordering the replica sets reorders the records alike.
SameRecord(a, b) ==
  /\ a.Name = b.Name /\ a.Namespace = b.Namespace
  /\ a.Description = b.Description /\ a.Labels = b.Labels
  /\ a.ContainerImages = b.ContainerImages /\ a.CreationTime = b.CreationTime
  /\ a.Pods = b.Pods
  /\ SameBag(a.InternalEndpoints.elems, b.InternalEndpoints.elems)
  /\ SameBag(a.ExternalEndpoints.elems, b.ExternalEndpoints.elems)

C8_OrderIndependent ==
  Returned =>
    \A it \in IterOrders :
      /\ getReplicaSetList(it, replicaSets, services, pods) = retList
      /\ \A p \in Perms(Len(services)), q \in Perms(Len(pods)) :
           LET out == getReplicaSetList(it, replicaSets, Permute(services, p),
                                        Permute(pods, q)).ReplicaSets.elems
           IN /\ Len(out) = Len(Records)
              /\ \A i \in 1..Len(Records) : SameRecord(out[i], Records[i])
      /\ \A r \in Perms(Len(replicaSets)) :
           getReplicaSetList(it, Permute(replicaSets, r), services,
                             pods).ReplicaSets.elems = Permute(Records, r)

C8_Witness ==
  /\ Returned
  /\ Len(replicaSets) = 2 /\ Len(services) = 2 /\ Len(pods) = 2
  /\ Records[1] # Records[2]
  /\ Len(Records[1].InternalEndpoints.elems) = 2
  /\ Records[1].Pods.Running = 1 /\ Records[1].Pods.Waiting = 0
  /\ Records[2].Pods.Running = 0 /\ Records[2].Pods.Waiting = 0
  /\ ~BelongsTo(pods[1], replicaSets[1]) /\ BelongsTo(pods[2], replicaSets[1])

\* C9: a replica set whose selector is empty or nil has no matching service,
\* no internal and no external endpoint and running = waiting = failed = 0,
\* whatever the services and pods are; its record is still in the list, no
\* error is returned, and the other records are what they are without it.
C9_EmptySelectorExcluded ==
  Returned =>
    \A i \in 1..Len(replicaSets) :
      MapLen(replicaSets[i].Selector) = 0 =>
        /\ Len(Records) = Len(replicaSets)
        /\ Records[i].Name = replicaSets[i].Name
        /\ Records[i].InternalEndpoints.elems = <<>>
        /\ Records[i].ExternalEndpoints.elems = <<>>
        /\ Records[i].Pods.Running = 0
        /\ Records[i].Pods.Waiting = 0
        /\ Records[i].Pods.Failed = 0
        /\ \A it \in IterOrders :
             /\ getMatchingServices(it, services, replicaSets[i]).elems = <<>>
             /\ RemoveAt(Records, i)
                  = getReplicaSetList(it, RemoveAt(replicaSets, i), services,
                                      pods).ReplicaSets.elems

C9_Witness ==
  /\ Returned
  /\ Len(replicaSets) = 2 /\ Len(services) = 1 /\ Len(pods) = 1
  /\ replicaSets[1].Selector = EmptyMap
  /\ services[1].Selector = EmptyMap
  /\ services[1].Namespace = replicaSets[1].Namespace
  /\ pods[1].Namespace = replicaSets[1].Namespace
  /\ Records[1].InternalEndpoints.elems = <<>>
  /\ Records[1].Pods.Running = 0
  /\ Records[2].Pods.Running = 1

\* C10: every service listed for a replica set targets every pod counted for
\* that replica set: the pod is in the service's namespace and its labels
\* satisfy the service's selector.
C10_JoinConsistency ==
  Returned =>
    \A i \in 1..Len(replicaSets), it \in IterOrders :
      LET R == replicaSets[i]
          listed == Range(getMatchingServices(it, services, R).elems)
      IN \A S \in listed, k \in 1..Len(pods) :
           (/\ pods[k].Namespace = R.Namespace
            /\ isLabelSelectorMatching(it, R.Selector, pods[k].Labels))
           => /\ pods[k].Namespace = S.Namespace
              /\ isLabelSelectorMatching(it, S.Selector, pods[k].Labels)
              /\ Satisfies(S.Selector, pods[k].Labels)

C10_Witness ==
  /\ Returned
  /\ Len(replicaSets) = 1 /\ Len(services) = 1 /\ Len(pods) = 1
  /\ replicaSets[1].Selector = AppXTierY
  /\ services[1].Selector = AppX
  /\ Len(Records[1].InternalEndpoints.elems) = 1
  /\ Records[1].Pods.Running = 1
  /\ Satisfies(services[1].Selector, pods[1].Labels)

====
